---- MODULE Spec2Model ----
(***************************************************************************)
(* coreos-metadata: one invocation of main() (internal/main.go) run over   *)
(* a persistent file system and a persistent authorized-keys store.        *)
(* Strings the program scans or formats are sequences of one-character     *)
(* strings; flag values that are only compared are TLA+ strings.           *)
(***************************************************************************)
EXTENDS Integers, Sequences, FiniteSets, TLC

VARIABLES
    pc,        \* position of main: start, cmdline, validate, fetch, attrs, keys, exited
    cli,       \* the command line as given (read-only input of the run)
    flags,     \* the flags struct of main (flags.provider is overwritten at line 74)
    args,      \* the bytes read from cmdlinePath (local of main, line 68)
    metadata,  \* the providers.Metadata returned by fetchMetadata
    fetched,   \* the identifier fetchMetadata was called with (<<>> : not called)
    exitCode,  \* process exit status once pc = "exited" (-1 while running)
    steps,     \* result of every step of the run so far
    ops,       \* the external operations this run performed, in order
    fs,        \* the attribute path's parent directory and file
    store,     \* the authorized-keys store of the user
    service,   \* what the provider's metadata service answers to this run
    prev,      \* the last successful attribute write of an earlier run
    found,     \* the file system and the store as this run found them
    input,     \* boot-parameter text given to the resolver (resolver specification)
    oem,       \* the resolver's result for input
    parsed     \* whether the resolver has run on input

vars == <<pc, cli, flags, args, metadata, fetched, exitCode, steps, ops, fs, store,
          service, prev, found, input, oem, parsed>>

----------------------------------------------------------------------------
(* Bounds of the model *)

MaxPieces == 5   \* boot-parameter text: at most this many pieces
MaxKeys == 2     \* SSH key list: at most this many keys

----------------------------------------------------------------------------
(* Constants of the program *)

NL == "\n"

cmdlinePath == "/proc/cmdline"

cmdlineOEMFlag == <<"c","o","r","e","o","s",".","o","e","m",".","i","d">>

azure == <<"a","z","u","r","e">>
ec2 == <<"e","c","2">>
gce == <<"g","c","e">>
packet == <<"p","a","c","k","e","t">>

BlockName == "coreos-metadata"

----------------------------------------------------------------------------
(* strings package *)

WhiteSpace == {" ", "\t", NL, "\r"}

RECURSIVE TrimLeft(_)
TrimLeft(s) ==
    IF s # <<>> /\ Head(s) \in WhiteSpace THEN TrimLeft(Tail(s)) ELSE s

RECURSIVE TrimRight(_)
TrimRight(s) ==
    IF s # <<>> /\ s[Len(s)] \in WhiteSpace
    THEN TrimRight(SubSeq(s, 1, Len(s) - 1))
    ELSE s

TrimSpace(s) == TrimRight(TrimLeft(s))

\* index of the first occurrence of the character sep in s, 0 when there is none
Index(s, sep) ==
    IF \E i \in 1..Len(s) : s[i] = sep
    THEN CHOOSE i \in 1..Len(s) : s[i] = sep /\ \A j \in 1..(i - 1) : s[j] # sep
    ELSE 0

RECURSIVE Split(_, _)
Split(s, sep) ==
    LET i == Index(s, sep)
    IN  IF i = 0 THEN <<s>>
        ELSE <<SubSeq(s, 1, i - 1)>> \o Split(SubSeq(s, i + 1, Len(s)), sep)

\* strings.SplitN(s, sep, 2)
SplitN2(s, sep) ==
    LET i == Index(s, sep)
    IN  IF i = 0 THEN <<s>>
        ELSE <<SubSeq(s, 1, i - 1), SubSeq(s, i + 1, Len(s))>>

RECURSIVE Join(_, _)
Join(a, sep) ==
    IF a = <<>> THEN <<>>
    ELSE IF Len(a) = 1 THEN a[1]
    ELSE a[1] \o <<sep>> \o Join(Tail(a), sep)

----------------------------------------------------------------------------
(* parseCmdline *)

\* the loop body for one arg, oem being the result so far
parseArg(acc, arg) ==
    LET parts == SplitN2(TrimSpace(arg), "=")
        key == parts[1]
    IN  IF key # cmdlineOEMFlag THEN acc
        ELSE IF Len(parts) = 2 THEN parts[2]
        ELSE acc

RECURSIVE parseLoop(_, _)
parseLoop(acc, argv) ==
    IF argv = <<>> THEN acc
    ELSE parseLoop(parseArg(acc, Head(argv)), Tail(argv))

parseCmdline(cmdline) == parseLoop(<<>>, Split(cmdline, " "))

----------------------------------------------------------------------------
(* Inputs and environment *)

RECURSIVE Flatten(_)
Flatten(ss) == IF ss = <<>> THEN <<>> ELSE Head(ss) \o Flatten(Tail(ss))

NoMetadata == [Attributes |-> <<>>, SshKeys |-> [present |-> FALSE, keys |-> <<>>]]

AttrPath == "/run/metadata/coreos"

AttrKeys == {<<"A">>, <<"B">>}

AttrValues == {<<>>, <<"x">>}

\* metadata.Attributes: a map with unique keys
AttrMaps == UNION {[D -> AttrValues] : D \in SUBSET AttrKeys}

KeyLines == {<<"p">>, <<"q">>}

\* metadata.SshKeys: a nil slice (present = FALSE) or a list of key lines
NoKeys == [present |-> FALSE, keys |-> <<>>]

SshKeyLists ==
    {NoKeys} \cup
    {[present |-> TRUE, keys |-> k] :
        k \in UNION {[1..n -> KeyLines] : n \in 0..MaxKeys}}

FetchError == [kind |-> "err", md |-> NoMetadata]

Answers(mds) == {FetchError} \cup {[kind |-> "ok", md |-> m] : m \in mds}

\* the user database seen by user.Lookup
Users == {"core"}

\* contents of cmdlinePath the runs are given
CmdlineSamples ==
    { <<>>,
      Flatten(<<cmdlineOEMFlag, <<"=">>, ec2, <<NL>>>>),
      Flatten(<<<<"x">>, <<" ">>, cmdlineOEMFlag, <<"=">>, gce, <<" ">>, cmdlineOEMFlag, <<NL>>>>),
      Flatten(<<cmdlineOEMFlag, <<"=">>, azure, <<" ">>, cmdlineOEMFlag, <<"=">>, packet>>),
      Flatten(<<cmdlineOEMFlag, <<"=">>, <<"x">>, <<NL>>>>),
      Flatten(<<<<"x">>, <<"=">>, ec2, <<NL>>>>) }

\* ioutil.ReadFile(cmdlinePath)
ReadFile(path) ==
    {[err |-> TRUE, data |-> <<>>]} \cup
    {[err |-> FALSE, data |-> d] : d \in CmdlineSamples}

NoSteps ==
    [version |-> "none", cmdline |-> "none", validate |-> "none", fetch |-> "none",
     attrs |-> "none", keys |-> "none"]

NoFile == [dir |-> FALSE, exists |-> FALSE, file |-> <<>>]

OtherBlock == [name |-> "other", content |-> <<"o">>]

NoStore == [exists |-> FALSE, blocks |-> <<>>, persisted |-> <<>>]

NoPrev == [valid |-> FALSE, attrs |-> <<>>, content |-> <<>>]

----------------------------------------------------------------------------
(* fetchMetadata *)

\* svc is what the metadata service of the machine's provider answers
fetchMetadata(provider, svc) ==
    IF provider = azure THEN svc
    ELSE IF provider = ec2 THEN svc
    ELSE IF provider = gce THEN svc
    ELSE IF provider = packet THEN svc
    ELSE [kind |-> "panic", md |-> NoMetadata]

----------------------------------------------------------------------------
(* writeVariable, writeMetadataAttributes *)

Prefix == <<"C","O","R","E","O","S","_">>

\* fmt.Sprintf("COREOS_%s=%s\n", key, value)
FormatVariable(key, value) == Prefix \o key \o <<"=">> \o value \o <<NL>>

\* writeVariable without the test of line 134
writeVariableUnguarded(out, key, value) == out \o FormatVariable(key, value)

writeVariable(out, key, value) ==
    IF Len(value) > 0 THEN out \o FormatVariable(key, value) ELSE out

\* the orders in which a range over a Go map may visit its keys
RangeOrders(m) ==
    LET D == DOMAIN m
    IN  {o \in [1..Cardinality(D) -> D] : \A k \in D : \E i \in DOMAIN o : o[i] = k}

RECURSIVE writeLoop(_, _, _)
writeLoop(out, attrs, order) ==
    IF order = <<>> THEN out
    ELSE writeLoop(writeVariable(out, Head(order), attrs[Head(order)]), attrs,
                   Tail(order))

\* a file opened for appending instead of truncated
CreateAppending(f) == [f EXCEPT !.exists = TRUE]

\* os.Create on an existing directory: the file exists and is empty
Create(f) == [f EXCEPT !.file = <<>>, !.exists = TRUE]

\* the loop of lines 157-161 stopped by a failing Fprintf at order[i], which
\* wrote the first n bytes of its line
writeFailed(out, attrs, order, i, n) ==
    writeLoop(out, attrs, SubSeq(order, 1, i - 1))
        \o SubSeq(FormatVariable(order[i], attrs[order[i]]), 1, n)

\* every way the call can end: the file system it leaves, how it ended and
\* the operations it performed
writeMetadataAttributes(attributes, md, f) ==
    IF attributes = "" THEN {[fs |-> f, result |-> "skipped", ops |-> <<>>]}
    ELSE
        LET made == [f EXCEPT !.dir = TRUE]
            created == Create(made)
            attrs == md.Attributes
        IN  {[fs |-> f, result |-> "mkdir", ops |-> <<"mkdir">>]}
            \cup {[fs |-> made, result |-> "create", ops |-> <<"mkdir", "create">>]}
            \cup {[fs |-> [created EXCEPT !.file = writeLoop(created.file, attrs, o)],
                   result |-> "ok",
                   ops |-> <<"mkdir", "create", "write">>] : o \in RangeOrders(attrs)}
            \cup UNION {
                   {[fs |-> [created EXCEPT
                               !.file = writeFailed(created.file, attrs, o, i, n)],
                     result |-> "write",
                     ops |-> <<"mkdir", "create", "write">>] :
                      n \in 0..(Len(FormatVariable(o[i], attrs[o[i]])) - 1)} :
                   <<o, i>> \in {<<o, i>> \in RangeOrders(attrs) \X (1..Cardinality(AttrKeys)) :
                                    i \in DOMAIN o /\ Len(attrs[o[i]]) > 0}}

----------------------------------------------------------------------------
(* writeMetadataKeys *)

\* the test of line 166 made on the length of the list instead of on nil
keysSkippedWhenEmpty(username, md) ==
    username = "" \/ ~md.SshKeys.present \/ Len(md.SshKeys.keys) = 0

\* line 166: the call is a no-op
keysSkipped(username, md) == username = "" \/ ~md.SshKeys.present

\* the keys joined by a space instead of a newline
joinKeysBySpace(keys) == Join(keys, " ")

\* line 181
joinKeys(keys) == Join(keys, NL)

HasBlock(blocks, name) == \E i \in DOMAIN blocks : blocks[i].name = name

\* akd.Add(name, content, replace, force) on a store that accepts it
storeAdd(blocks, name, content) ==
    IF HasBlock(blocks, name)
    THEN [i \in DOMAIN blocks |->
            IF blocks[i].name = name THEN [name |-> name, content |-> content]
            ELSE blocks[i]]
    ELSE Append(blocks, [name |-> name, content |-> content])

\* whether akd.Add refuses: a block of that name exists and may not be replaced
storeAddRefused(blocks, name, replace, force) ==
    \E i \in DOMAIN blocks :
        /\ blocks[i].name = name
        /\ \/ blocks[i].content # <<>> /\ ~replace
           \/ blocks[i].content = <<>> /\ ~force

\* the block name and the flags of the akd.Add call of line 182
addName == BlockName
addReplace == TRUE
addForce == TRUE

writeMetadataKeys(username, md, st) ==
    IF keysSkipped(username, md) THEN {[store |-> st, result |-> "skipped", ops |-> <<>>]}
    ELSE IF username \notin Users
    THEN {[store |-> st, result |-> "lookup", ops |-> <<"lookup">>]}
    ELSE
        LET opened == [st EXCEPT !.exists = TRUE]
            ks == joinKeys(md.SshKeys.keys)
            added == [opened EXCEPT
                        !.blocks = storeAdd(opened.blocks, addName, ks)]
            synced == [added EXCEPT !.persisted = added.blocks]
        IN  {[store |-> st, result |-> "open", ops |-> <<"lookup", "open">>]}
            \cup {[store |-> opened, result |-> "add", ops |-> <<"lookup", "open", "add">>]}
            \cup (IF storeAddRefused(opened.blocks, addName, addReplace, addForce) THEN {}
                  ELSE {[store |-> added, result |-> "sync",
                         ops |-> <<"lookup", "open", "add", "sync">>],
                        [store |-> synced, result |-> "ok",
                         ops |-> <<"lookup", "open", "add", "sync">>]})

----------------------------------------------------------------------------
(* main *)

\* a switch that also lets the empty identifier through
validProviderOrEmpty(provider) == provider \in {<<>>, azure, ec2, gce, packet}

\* the switch of lines 77-78
validProvider(provider) == provider \in {azure, ec2, gce, packet}

Exit(code) == pc' = "exited" /\ exitCode' = code

\* flag.Parse, lines 46-60, at the start of a run on the machine's state
Start(c, svc, f, st, pv) ==
    /\ cli = c
    /\ flags = c
    /\ service = svc
    /\ pc = "start"
    /\ args = <<>>
    /\ metadata = NoMetadata
    /\ fetched = <<>>
    /\ exitCode = -1
    /\ steps = NoSteps
    /\ ops = <<>>
    /\ fs = f
    /\ store = st
    /\ prev = pv
    /\ found = [fs |-> f, store |-> st]

\* lines 62-65
CheckVersion ==
    /\ pc = "start"
    /\ IF flags.version
       THEN /\ Exit(0)
            /\ steps' = [steps EXCEPT !.version = "printed"]
       ELSE /\ pc' = "cmdline"
            /\ steps' = [steps EXCEPT !.version = "skipped"]
            /\ UNCHANGED exitCode
    /\ UNCHANGED <<cli, flags, args, metadata, fetched, ops, fs, store, service, prev, found,
                   input, oem, parsed>>

\* the test of line 67 without its second half
readsCmdlineAlways(f) == f.cmdline

\* line 67: the provider is to be read from the boot parameters
readsCmdline(f) == f.cmdline /\ f.provider = <<>>

\* lines 67-75
ResolveProvider ==
    /\ pc = "cmdline"
    /\ IF readsCmdline(flags)
       THEN \E r \in ReadFile(cmdlinePath) :
              /\ ops' = Append(ops, "readCmdline")
              /\ IF r.err
                 THEN /\ Exit(2)
                      /\ steps' = [steps EXCEPT !.cmdline = "failed"]
                      /\ UNCHANGED <<flags, args>>
                 ELSE /\ args' = r.data
                      /\ flags' = [flags EXCEPT !.provider = parseCmdline(r.data)]
                      /\ steps' = [steps EXCEPT !.cmdline = "ok"]
                      /\ pc' = "validate"
                      /\ UNCHANGED exitCode
       ELSE /\ pc' = "validate"
            /\ steps' = [steps EXCEPT !.cmdline = "skipped"]
            /\ UNCHANGED <<flags, args, ops, exitCode>>
    /\ UNCHANGED <<cli, metadata, fetched, fs, store, service, prev, found, input, oem, parsed>>

\* lines 77-82 ending with the status of a runtime failure
ValidateProviderStatus1 ==
    /\ pc = "validate"
    /\ IF validProvider(flags.provider)
       THEN /\ pc' = "fetch"
            /\ steps' = [steps EXCEPT !.validate = "ok"]
            /\ UNCHANGED exitCode
       ELSE /\ Exit(1)
            /\ steps' = [steps EXCEPT !.validate = "failed"]
    /\ UNCHANGED <<cli, flags, args, metadata, fetched, ops, fs, store, service, prev, found,
                   input, oem, parsed>>

\* lines 77-82
ValidateProvider ==
    /\ pc = "validate"
    /\ IF validProvider(flags.provider)
       THEN /\ pc' = "fetch"
            /\ steps' = [steps EXCEPT !.validate = "ok"]
            /\ UNCHANGED exitCode
       ELSE /\ Exit(2)
            /\ steps' = [steps EXCEPT !.validate = "failed"]
    /\ UNCHANGED <<cli, flags, args, metadata, fetched, ops, fs, store, service, prev, found,
                   input, oem, parsed>>

\* lines 84-88 without the exit of line 87: the run goes on after a failed fetch
FetchUnchecked ==
    /\ pc = "fetch"
    /\ fetched' = flags.provider
    /\ LET r == fetchMetadata(flags.provider, service)
       IN  IF r.kind = "panic"
           THEN /\ Exit(2)
                /\ steps' = [steps EXCEPT !.fetch = "panic"]
                /\ UNCHANGED <<metadata, ops>>
           ELSE /\ ops' = Append(ops, "fetch")
                /\ metadata' = r.md
                /\ steps' = [steps EXCEPT !.fetch = IF r.kind = "err" THEN "failed" ELSE "ok"]
                /\ pc' = "attrs"
                /\ UNCHANGED exitCode
    /\ UNCHANGED <<cli, flags, args, fs, store, service, prev, found, input, oem, parsed>>

\* lines 84-88; a panic of fetchMetadata ends the process with status 2
Fetch ==
    /\ pc = "fetch"
    /\ fetched' = flags.provider
    /\ LET r == fetchMetadata(flags.provider, service)
       IN  IF r.kind = "panic"
           THEN /\ Exit(2)
                /\ steps' = [steps EXCEPT !.fetch = "panic"]
                /\ UNCHANGED <<metadata, ops>>
           ELSE /\ ops' = Append(ops, "fetch")
                /\ IF r.kind = "err"
                   THEN /\ Exit(1)
                        /\ steps' = [steps EXCEPT !.fetch = "failed"]
                        /\ UNCHANGED metadata
                   ELSE /\ metadata' = r.md
                        /\ steps' = [steps EXCEPT !.fetch = "ok"]
                        /\ pc' = "attrs"
                        /\ UNCHANGED exitCode
    /\ UNCHANGED <<cli, flags, args, fs, store, service, prev, found, input, oem, parsed>>

\* lines 90-93, with the os.Exit(1) calls of lines 145-154
WriteAttributes ==
    /\ pc = "attrs"
    /\ \E r \in writeMetadataAttributes(flags.attributes, metadata, fs) :
        /\ fs' = r.fs
        /\ ops' = ops \o r.ops
        /\ steps' = [steps EXCEPT !.attrs = r.result]
        /\ IF r.result \in {"ok", "skipped"}
           THEN pc' = "keys" /\ UNCHANGED exitCode
           ELSE Exit(1)
    /\ UNCHANGED <<cli, flags, args, metadata, fetched, store, service, prev, found,
                   input, oem, parsed>>

\* lines 95-99
WriteKeys ==
    /\ pc = "keys"
    /\ \E r \in writeMetadataKeys(flags.sshKeys, metadata, store) :
        /\ store' = r.store
        /\ ops' = ops \o r.ops
        /\ steps' = [steps EXCEPT !.keys = r.result]
        /\ IF r.result \in {"ok", "skipped"} THEN Exit(0) ELSE Exit(1)
    /\ UNCHANGED <<cli, flags, args, metadata, fetched, fs, service, prev, found,
                   input, oem, parsed>>

Run ==
    \/ CheckVersion
    \/ ResolveProvider
    \/ ValidateProvider
    \/ Fetch
    \/ WriteAttributes
    \/ WriteKeys

\* the program is started again (the next boot) with command line c, the
\* service answering svc, on the files and the store the last run left
Restart(c, svc) ==
    /\ pc = "exited"
    /\ cli' = c
    /\ flags' = c
    /\ service' = svc
    /\ pc' = "start"
    /\ args' = <<>>
    /\ metadata' = NoMetadata
    /\ fetched' = <<>>
    /\ exitCode' = -1
    /\ steps' = NoSteps
    /\ ops' = <<>>
    /\ prev' = IF steps.attrs = "ok"
               THEN [valid |-> TRUE, attrs |-> metadata.Attributes, content |-> fs.file]
               ELSE prev
    /\ found' = [fs |-> fs, store |-> store]
    /\ UNCHANGED <<fs, store, input, oem, parsed>>

----------------------------------------------------------------------------
(* Specification of one run, from every command line *)

CommandLines ==
    [cmdline : BOOLEAN,
     provider : {<<>>, azure, ec2, <<"f","o","o">>},
     attributes : {"", AttrPath},
     sshKeys : {"", "core", "nobody"},
     version : BOOLEAN]

RunAnswers ==
    Answers({[Attributes |-> <<>>, SshKeys |-> NoKeys],
             [Attributes |-> (<<"A">> :> <<"x">>) @@ (<<"B">> :> <<>>),
              SshKeys |-> [present |-> TRUE, keys |-> <<>>]],
             [Attributes |-> (<<"A">> :> <<"x">>) @@ (<<"B">> :> <<"y">>),
              SshKeys |-> [present |-> TRUE, keys |-> << <<"p">> >>]]})

RunFiles == {NoFile, [dir |-> TRUE, exists |-> TRUE, file |-> FormatVariable(<<"B">>, <<"x">>)]}

RunStores ==
    {NoStore,
     [exists |-> TRUE,
      blocks |-> <<OtherBlock, [name |-> BlockName, content |-> <<"q">>]>>,
      persisted |-> <<OtherBlock, [name |-> BlockName, content |-> <<"q">>]>>]}

Init ==
    \E c \in CommandLines, svc \in RunAnswers, f \in RunFiles, st \in RunStores :
        /\ Start(c, svc, f, st, NoPrev)
        /\ input = <<>> /\ oem = <<>> /\ parsed = FALSE

Next == Run

Spec == Init /\ [][Next]_vars

----------------------------------------------------------------------------
(* Specification of repeated runs that write the attribute file *)

AttrCommandLines ==
    [cmdline : {FALSE}, provider : {ec2}, attributes : {"", AttrPath},
     sshKeys : {""}, version : {FALSE}]

AttrAnswers == Answers([Attributes : AttrMaps, SshKeys : {NoKeys}])

InitAttrs ==
    \E c \in AttrCommandLines, svc \in AttrAnswers :
        /\ Start(c, svc, NoFile, NoStore, NoPrev)
        /\ input = <<>> /\ oem = <<>> /\ parsed = FALSE

RestartAttrs == \E c \in AttrCommandLines, svc \in AttrAnswers : Restart(c, svc)

NextAttrs == Run \/ RestartAttrs

SpecAttrs == InitAttrs /\ [][NextAttrs]_vars

----------------------------------------------------------------------------
(* Specification of repeated runs that install the SSH keys *)

KeysCommandLines ==
    [cmdline : {FALSE}, provider : {gce}, attributes : {""},
     sshKeys : {"", "core", "nobody"}, version : {FALSE}]

KeysAnswers == Answers([Attributes : {<<>>}, SshKeys : SshKeyLists])

KeysStores ==
    {NoStore, [exists |-> TRUE, blocks |-> <<OtherBlock>>, persisted |-> <<OtherBlock>>]}

InitKeys ==
    \E c \in KeysCommandLines, svc \in KeysAnswers, st \in KeysStores :
        /\ Start(c, svc, NoFile, st, NoPrev)
        /\ input = <<>> /\ oem = <<>> /\ parsed = FALSE

RestartKeys == \E c \in KeysCommandLines, svc \in KeysAnswers : Restart(c, svc)

NextKeys == Run \/ RestartKeys

SpecKeys == InitKeys /\ [][NextKeys]_vars

----------------------------------------------------------------------------
(* Specification of the resolver alone, over boot-parameter texts *)

Pieces == {cmdlineOEMFlag, <<"=">>, <<" ">>, <<NL>>, ec2, <<"x">>}

BootParameters ==
    {Flatten(ps) : ps \in UNION {[1..n -> Pieces] : n \in 0..MaxPieces}}

InitParse ==
    /\ Start([cmdline |-> TRUE, provider |-> <<>>, attributes |-> "", sshKeys |-> "",
              version |-> FALSE], FetchError, NoFile, NoStore, NoPrev)
    /\ input \in BootParameters
    /\ oem = <<>>
    /\ parsed = FALSE

\* line 74 on the text input
Resolve ==
    /\ ~parsed
    /\ oem' = parseCmdline(input)
    /\ parsed' = TRUE
    /\ UNCHANGED <<pc, cli, flags, args, metadata, fetched, exitCode, steps, ops, fs,
                   store, service, prev, found, input>>

NextParse == Resolve

SpecParse == InitParse /\ [][NextParse]_vars

----------------------------------------------------------------------------
(* Properties *)

Did(o) == \E i \in DOMAIN ops : ops[i] = o

FileOps == {"mkdir", "create", "write"}

StoreOps == {"lookup", "open", "add", "sync"}

DidAny(S) == \E i \in DOMAIN ops : ops[i] \in S

ClosedSet == {azure, ec2, gce, packet}

\* the text of a token before its first '=' and after it
TokenKey(tok) ==
    LET t == TrimSpace(tok)
        i == Index(t, "=")
    IN  IF i = 0 THEN t ELSE SubSeq(t, 1, i - 1)

TokenValue(tok) ==
    LET t == TrimSpace(tok)
        i == Index(t, "=")
    IN  IF i = 0 THEN <<>> ELSE SubSeq(t, i + 1, Len(t))

\* the value recorded for the last token whose key is the flag
LastOccurrence(text) ==
    LET toks == Split(text, " ")
        hits == {i \in DOMAIN toks : TokenKey(toks[i]) = cmdlineOEMFlag}
    IN  IF hits = {} THEN <<>>
        ELSE TokenValue(toks[CHOOSE i \in hits : \A j \in hits : j <= i])

\* C1: for every boot-parameter text the resolver returns the value recorded
\* for the last token whose key is coreos.oem.id, the empty string for a bare
\* flag, and the empty string when no token has that key.
C1_LastOccurrenceWins == parsed => oem = LastOccurrence(input)

\* C2: a run whose resolved provider identifier is outside the closed set
\* exits with code 2 having fetched nothing, touched no file and no store;
\* fetchMetadata is only called with an identifier of the closed set and
\* never panics.
C2_InvalidProviderRejected ==
    /\ (steps.cmdline # "none" /\ flags.provider \notin ClosedSet) =>
          /\ pc \in {"validate", "exited"}
          /\ pc = "exited" => exitCode = 2
          /\ ~Did("fetch") /\ ~DidAny(FileOps) /\ ~DidAny(StoreOps)
          /\ fs = found.fs /\ store = found.store
          /\ fetched = <<>>
    /\ (fetched # <<>> \/ Did("fetch")) => fetched \in ClosedSet
    /\ steps.fetch # "panic"

\* C2 witness: the resolver gave the empty identifier and the run ended with 2
C2_Witness ==
    /\ pc = "exited" /\ exitCode = 2
    /\ steps.cmdline = "ok" /\ flags.provider = <<>>
    /\ cli.attributes # "" /\ cli.sshKeys # ""

\* C3: the exit code is 0 for --version and for a run whose every step
\* succeeded, 2 for an unreadable boot-parameter source or an invalid
\* provider, 1 for a failed fetch, attribute write or key install; no other
\* code occurs and no class yields the code of another.
C3_ExitCodes ==
    /\ pc # "exited" => exitCode = -1
    /\ pc = "exited" =>
          /\ exitCode \in {0, 1, 2}
          /\ cli.version =>
                exitCode = 0 /\ ops = <<>> /\ fs = found.fs /\ store = found.store
          /\ exitCode = 0 <=>
                \/ cli.version
                \/ /\ steps.fetch = "ok"
                   /\ steps.attrs \in {"ok", "skipped"}
                   /\ steps.keys \in {"ok", "skipped"}
          /\ exitCode = 2 <=>
                /\ ~cli.version
                /\ steps.cmdline = "failed" \/ steps.validate = "failed"
          /\ exitCode = 1 <=>
                /\ ~cli.version
                /\ \/ steps.fetch = "failed"
                   \/ steps.attrs \in {"mkdir", "create", "write"}
                   \/ steps.keys \in {"lookup", "open", "add", "sync"}

\* C3 witness: an invalid provider given beside requested outputs ended the run
C3_Witness ==
    /\ pc = "exited" /\ steps.validate = "failed" /\ exitCode = 2
    /\ cli.provider # <<>>

\* C4: in a run that selects a provider, the boot-parameter source is read
\* exactly when --cmdline is set and --provider is empty, and the resolver's
\* result on what was read becomes the identifier; a non-empty --provider is
\* the identifier validated and fetched, and the source is then not read, so
\* that its being unreadable causes no error.
C4_ProviderPrecedence ==
    /\ Did("readCmdline") => cli.cmdline /\ cli.provider = <<>>
    /\ steps.cmdline # "none" =>
          /\ Did("readCmdline") <=> (cli.cmdline /\ cli.provider = <<>>)
          /\ steps.cmdline \in {"ok", "failed"} <=> Did("readCmdline")
          /\ steps.cmdline = "ok" => flags.provider = parseCmdline(args)
          /\ cli.provider # <<>> =>
                /\ steps.cmdline = "skipped"
                /\ flags.provider = cli.provider
                /\ fetched \in {<<>>, cli.provider}
                /\ pc = "exited" /\ exitCode = 2 => steps.validate = "failed"

\* C4 witness: --cmdline and --provider both given, the provider was fetched
C4_Witness ==
    /\ cli.cmdline /\ cli.provider = azure
    /\ fetched = azure /\ ~Did("readCmdline")

\* the line the attribute file holds for a key and its value
AttributeLine(k, v) == <<"C","O","R","E","O","S","_">> \o k \o <<"=">> \o v

ExpectedLines(attrs) ==
    {AttributeLine(k, attrs[k]) : k \in {a \in DOMAIN attrs : attrs[a] # <<>>}}

\* the lines of a file, the last one possibly unterminated
FileLines(content) ==
    LET p == Split(content, NL)
    IN  IF p[Len(p)] = <<>> THEN SubSeq(p, 1, Len(p) - 1) ELSE p

LineSet(content) == {FileLines(content)[i] : i \in DOMAIN FileLines(content)}

RECURSIVE TotalLength(_)
TotalLength(S) ==
    IF S = {} THEN 0
    ELSE LET l == CHOOSE l \in S : TRUE IN Len(l) + 1 + TotalLength(S \ {l})

\* C5: after a successful writeMetadataAttributes on a non-empty path the
\* file's lines are exactly COREOS_<key>=<value> for the attributes whose
\* value is not empty: one line for each, none for an empty value, no other.
C5_FileLines ==
    steps.attrs = "ok" =>
        /\ fs.dir /\ fs.exists
        /\ LineSet(fs.file) = ExpectedLines(metadata.Attributes)
        /\ Len(FileLines(fs.file)) = Cardinality(ExpectedLines(metadata.Attributes))
        /\ fs.file # <<>> => fs.file[Len(fs.file)] = NL

\* C5 witness: a write of a mapping with an empty and a non-empty value succeeded
C5_Witness ==
    /\ steps.attrs = "ok"
    /\ \E a, b \in DOMAIN metadata.Attributes :
          metadata.Attributes[a] = <<>> /\ metadata.Attributes[b] # <<>>

\* C6: two successful writes of the same attribute mapping leave
\* byte-identical files.
C6_SameMappingSameFile ==
    (steps.attrs = "ok" /\ prev.valid /\ prev.attrs = metadata.Attributes) =>
        fs.file = prev.content

\* C7: a successful write leaves only the lines of its own run: no line the
\* run found in the file survives unless the run writes it, and the file is
\* as long as the run's lines alone.
C7_FullOverwrite ==
    steps.attrs = "ok" =>
        /\ \A l \in LineSet(found.fs.file) :
              l \notin ExpectedLines(metadata.Attributes) => l \notin LineSet(fs.file)
        /\ Len(fs.file) = TotalLength(ExpectedLines(metadata.Attributes))

\* C7 witness: a successful write over the file of an earlier successful
\* write that held a line of another attribute
C7_Witness ==
    /\ steps.attrs = "ok"
    /\ prev.valid /\ prev.content = found.fs.file
    /\ \E l \in LineSet(found.fs.file) : l \notin ExpectedLines(metadata.Attributes)
    /\ fs.file # <<>>

BlockContents(blocks, name) ==
    {blocks[i].content : i \in {j \in DOMAIN blocks : blocks[j].name = name}}

\* C8: with an empty username or absent keys writeMetadataKeys succeeds
\* without a user lookup or a store operation; with a username and a present
\* key list, even an empty one, it goes on to the store, and its success with
\* an empty list leaves the coreos-metadata block empty.
C8_AbsentVersusEmpty ==
    steps.keys # "none" =>
        /\ (flags.sshKeys = "" \/ ~metadata.SshKeys.present) =>
              /\ steps.keys = "skipped"
              /\ ~DidAny(StoreOps)
              /\ store = found.store
        /\ (flags.sshKeys # "" /\ metadata.SshKeys.present) =>
              /\ steps.keys # "skipped"
              /\ Did("lookup")
        /\ (steps.keys = "ok" /\ metadata.SshKeys.keys = <<>>) =>
              /\ Did("open") /\ Did("add") /\ Did("sync")
              /\ BlockContents(store.blocks, "coreos-metadata") = {<<>>}
              /\ BlockContents(store.persisted, "coreos-metadata") = {<<>>}

\* C8 witness: an empty key list installed over previously installed keys
C8_Witness ==
    /\ steps.keys = "ok"
    /\ metadata.SshKeys.present /\ metadata.SshKeys.keys = <<>>
    /\ \E c \in BlockContents(found.store.blocks, "coreos-metadata") : c # <<>>

OtherBlocks(blocks) == SelectSeq(blocks, LAMBDA b : b.name # "coreos-metadata")

\* C9: after a successful install the store holds exactly one block labelled
\* coreos-metadata, its content the run's keys separated by newlines, the
\* blocks of other labels are as the run found them, and installing the keys
\* the block already holds leaves the store as it was.
C9_IdempotentReplace ==
    steps.keys = "ok" =>
        /\ Cardinality({i \in DOMAIN store.blocks :
                           store.blocks[i].name = "coreos-metadata"}) = 1
        /\ \A c \in BlockContents(store.blocks, "coreos-metadata") :
              IF metadata.SshKeys.keys = <<>> THEN c = <<>>
              ELSE Split(c, NL) = metadata.SshKeys.keys
        /\ OtherBlocks(store.blocks) = OtherBlocks(found.store.blocks)
        /\ store.persisted = store.blocks
        /\ \A c \in BlockContents(found.store.blocks, "coreos-metadata") :
              Split(c, NL) = metadata.SshKeys.keys => store.blocks = found.store.blocks

\* C9 witness: the same two keys installed a second time beside another block
C9_Witness ==
    /\ steps.keys = "ok"
    /\ Len(metadata.SshKeys.keys) = 2
    /\ \E c \in BlockContents(found.store.blocks, "coreos-metadata") :
          Split(c, NL) = metadata.SshKeys.keys
    /\ OtherBlocks(store.blocks) # <<>>

\* the step an operation belongs to
Rank(o) ==
    IF o = "readCmdline" THEN 0
    ELSE IF o = "fetch" THEN 1
    ELSE IF o \in FileOps THEN 2
    ELSE 3

\* C10: the operations of a run occur in the order resolution, fetch,
\* attribute write, key install, and each step starts only after the steps
\* before it succeeded: a failed fetch leaves files and store as found, a
\* failed attribute write leaves the store as found and starts no install.
C10_StrictOrder ==
    /\ \A i, j \in DOMAIN ops : i < j => Rank(ops[i]) <= Rank(ops[j])
    /\ Did("fetch") => steps.validate = "ok"
    /\ DidAny(FileOps) => steps.fetch = "ok"
    /\ DidAny(StoreOps) => steps.fetch = "ok" /\ steps.attrs \in {"ok", "skipped"}
    /\ steps.attrs # "none" => steps.fetch = "ok"
    /\ steps.keys # "none" => steps.fetch = "ok" /\ steps.attrs \in {"ok", "skipped"}
    /\ steps.fetch = "failed" =>
          pc = "exited" /\ fs = found.fs /\ store = found.store
    /\ steps.attrs \in {"mkdir", "create", "write"} =>
          pc = "exited" /\ store = found.store /\ steps.keys = "none"

\* C10 witness: a requested key install never started after a failed line write
C10_Witness ==
    /\ pc = "exited" /\ steps.attrs = "write"
    /\ cli.sshKeys = "core" /\ metadata.SshKeys.present
    /\ fs # found.fs

====
